---- MODULE Spec2Model ----
(***************************************************************************)
(* KeywordProcessor of "Simple Input Processing": the constructor compiles *)
(* one regular expression from the configuration, split() runs findall     *)
(* over the input, normalizes, sorts and groups the matches.               *)
(*                                                                         *)
(* Text is a sequence of one-character strings.  The marker None of the    *)
(* groups list is the string "None" (no character is four letters long).   *)
(*                                                                         *)
(* "Singular Representation": LazySingleton, the Singleton metaclass with  *)
(* its class Singular, and Borg, on a heap of numbered objects; the first   *)
(* calls of the two singletons also step by step for several threads.      *)
(*                                                                         *)
(* "Text Processing": uninorm and urlsafe on texts of code points.         *)
(* "Interview Questions": the store-hours lookup by scan and by bisection. *)
(* "Alternate Class Instantiation": number, and Tag with its clones.       *)
(***************************************************************************)
EXTENDS Integers, Sequences, FiniteSets, TLC

\* longest input text handed to split
MaxLen == 4

\* longest input text of a caller that calls split again and again
MaxCallLen == 2

\* number of containers split builds before the caller stops calling
MaxCalls == 3

\* number of calls and assignments made on LazySingleton, Singular and Borg
MaxTrace == 5

\* characters of the texts when every pattern is exercised
Alphabet == {" ", "\n", "\"", "'", "+", "a"}

\* what \s matches among the characters used here
Whitespace == {" ", "\t", "\n"}

\* code point order of the characters (str comparison of list.sort)
Ord(c) ==
  CASE c = "\t" -> 9
    [] c = "\n" -> 10
    [] c = " " -> 32
    [] c = "\"" -> 34
    [] c = "'" -> 39
    [] c = "+" -> 43
    [] c = "," -> 44
    [] c = "-" -> 45
    [] c = "B" -> 66
    [] c = "a" -> 97
    [] c = "b" -> 98

\* characters of the texts when normalization, sort and grouping are exercised
WordAlphabet == {" ", "\"", "+", "a", "B"}

TextsOver(alphabet) == UNION {[1..n -> alphabet] : n \in 0..MaxLen}

Range(f) == {f[i] : i \in DOMAIN f}

Min(S) == CHOOSE x \in S : \A y \in S : x <= y

Max(S) == CHOOSE x \in S : \A y \in S : x >= y

(***************************************************************************)
(* __init__: the pattern.  Inside the capture group the marker prefix, the *)
(* quoted alternatives (each ending in "|") and the bare run are joined as *)
(* text, so the prefix belongs to the first alternative only.              *)
(***************************************************************************)

\* '%s[^%s]+%s|' % (i, i, i): a span between two quote characters i
QuotedAlt(i) == [open |-> <<i>>, excl |-> {i}, close |-> <<i>>]

\* variant: '.+', the bare run does not stop at separators
BareAlt_AnyChar(separators) == [open |-> <<>>, excl |-> {}, close |-> <<>>]

\* '[^%s]+' % separators: a run of characters that are not separators
BareAlt(separators) == [open |-> <<>>, excl |-> Range(separators), close |-> <<>>]

\* '[%s]%s' % (markers, '?' if None in groups else '') if groups else ''
MarkerPrefix(groupsArg) ==
  IF groupsArg = <<>>
  THEN [chars |-> {}, optional |-> TRUE]
  ELSE [chars |-> Range(groupsArg) \ {"None"}, optional |-> "None" \in Range(groupsArg)]

NoPrefix == [chars |-> {}, optional |-> TRUE]

\* the alternatives of the capture group, in the order of the pattern text
Alternatives(quotes, separators) ==
  [i \in 1..Len(quotes) |-> QuotedAlt(quotes[i])] \o <<BareAlt(separators)>>

\* the prefix is concatenated in front of the alternation: it binds to alternative 1
PrefixOfAlt(groupsArg, i) == IF i = 1 THEN MarkerPrefix(groupsArg) ELSE NoPrefix

\* variant: the leading class also takes "+"
Compile_LeadTakesPlus(separators, quotes, groupsArg) ==
  [lead  |-> Whitespace \cup Range(separators) \cup {"+"},
   alts  |-> [i \in 1..(Len(quotes) + 1) |->
                [prefix |-> PrefixOfAlt(groupsArg, i),
                 body   |-> Alternatives(quotes, separators)[i]]],
   trail |-> Range(separators)]

\* lines 288-297: the compiled pattern
Compile(separators, quotes, groupsArg) ==
  [lead  |-> Whitespace \cup Range(separators),
   alts  |-> [i \in 1..(Len(quotes) + 1) |->
                [prefix |-> PrefixOfAlt(groupsArg, i),
                 body   |-> Alternatives(quotes, separators)[i]]],
   trail |-> Range(separators)]

(***************************************************************************)
(* The regular expression engine on this pattern: greedy, backtracking,    *)
(* leftmost alternative first.  Positions are 1-based; an end position is  *)
(* the index after the last matched character; 0 is "no match".            *)
(***************************************************************************)

\* first index >= p whose character is in stop (Len(s)+1 when there is none)
RunEnd(s, p, stop) ==
  LET stops == {i \in p..Len(s) : s[i] \in stop}
  IN IF stops = {} THEN Len(s) + 1 ELSE Min(stops)

\* first index >= p whose character is not in class
ClassEnd(s, p, class) ==
  LET stops == {i \in p..Len(s) : s[i] \notin class}
  IN IF stops = {} THEN Len(s) + 1 ELSE Min(stops)

\* variant: 'open[^excl]+(close|$)', an unclosed span runs to the end of s
BodyEnd_UnclosedToEnd(body, s, p) ==
  LET q == p + Len(body.open)
      e == RunEnd(s, q, body.excl)
  IN IF body.open # <<>> /\ (p > Len(s) \/ s[p] # body.open[1]) THEN 0
     ELSE IF e = q THEN 0
     ELSE IF body.close = <<>> THEN e
     ELSE IF e <= Len(s) /\ s[e] = body.close[1] THEN e + 1
     ELSE e

\* variant: 'open[^excl]close', the "+" is missing
BodyEnd_OneChar(body, s, p) ==
  LET q == p + Len(body.open)
      e == IF RunEnd(s, q, body.excl) > q THEN q + 1 ELSE q
  IN IF body.open # <<>> /\ (p > Len(s) \/ s[p] # body.open[1]) THEN 0
     ELSE IF e = q THEN 0
     ELSE IF body.close = <<>> THEN e
     ELSE IF e <= Len(s) /\ s[e] = body.close[1] THEN e + 1
     ELSE 0

\* open [^excl]+ close at p: the run is greedy and a shorter run never
\* helps, because the character after a shorter run is not in excl
BodyEnd(body, s, p) ==
  LET q == p + Len(body.open)
      e == RunEnd(s, q, body.excl)
  IN IF body.open # <<>> /\ (p > Len(s) \/ s[p] # body.open[1]) THEN 0
     ELSE IF e = q THEN 0
     ELSE IF body.close = <<>> THEN e
     ELSE IF e <= Len(s) /\ s[e] = body.close[1] THEN e + 1
     ELSE 0

\* [markers] or [markers]? followed by the body: take the marker first,
\* fall back to no marker when the prefix is optional
AltEnd(alt, s, p) ==
  LET taken == IF alt.prefix.chars # {} /\ p <= Len(s) /\ s[p] \in alt.prefix.chars
               THEN BodyEnd(alt.body, s, p + 1) ELSE 0
  IN IF taken # 0 THEN taken
     ELSE IF alt.prefix.chars = {} \/ alt.prefix.optional THEN BodyEnd(alt.body, s, p)
     ELSE 0

\* the capture group at p: the first alternative that matches
GroupEnd(pat, s, p) ==
  LET ok == {i \in 1..Len(pat.alts) : AltEnd(pat.alts[i], s, p) # 0}
  IN IF ok = {} THEN 0 ELSE AltEnd(pat.alts[Min(ok)], s, p)

\* variant: the leading class is lazy and stops at the first position where
\* the group matches
MatchAt_LazyLead(pat, s, p) ==
  LET starts == {g \in p..ClassEnd(s, p, pat.lead) : GroupEnd(pat, s, g) # 0}
  IN IF starts = {} THEN [found |-> FALSE, from |-> 0, to |-> 0, next |-> p + 1]
     ELSE LET g == Min(starts)
              e == GroupEnd(pat, s, g)
          IN [found |-> TRUE, from |-> g, to |-> e, next |-> ClassEnd(s, e, pat.trail)]

\* one match attempt starting at p: [\s seps]* gives characters back until
\* the group matches; the trailing [seps]* always matches
MatchAt(pat, s, p) ==
  LET starts == {g \in p..ClassEnd(s, p, pat.lead) : GroupEnd(pat, s, g) # 0}
  IN IF starts = {} THEN [found |-> FALSE, from |-> 0, to |-> 0, next |-> p + 1]
     ELSE LET g == Max(starts)
              e == GroupEnd(pat, s, g)
          IN [found |-> TRUE, from |-> g, to |-> e, next |-> ClassEnd(s, e, pat.trail)]

RECURSIVE Scan(_, _, _)
\* after the attempt m: keep a match, go on where the attempt says
Rest(pat, s, m) ==
  IF m.found THEN <<m>> \o Scan(pat, s, m.next) ELSE Scan(pat, s, m.next)

\* the successive non-overlapping matches from position p on; a position
\* without a match is skipped
Scan(pat, s, p) ==
  IF p > Len(s) THEN <<>> ELSE Rest(pat, s, MatchAt(pat, s, p))

\* where group 1 of each match lies in s
Spans(pat, s) == Scan(pat, s, 1)

\* regex.findall(value): the text of group 1 of each match
FindAll(pat, s) ==
  LET sp == Spans(pat, s)
  IN [i \in 1..Len(sp) |-> SubSeq(s, sp[i].from, sp[i].to - 1)]

(***************************************************************************)
(* split(): normalization, sort, grouping and the shape of the result.     *)
(***************************************************************************)

\* str.lower on the characters used here
Lower(c) == IF c = "B" THEN "b" ELSE c

RECURSIVE LStrip(_, _)
LStrip(t, chars) ==
  IF t # <<>> /\ t[1] \in chars THEN LStrip(Tail(t), chars) ELSE t

RECURSIVE RStrip(_, _)
RStrip(t, chars) ==
  IF t # <<>> /\ t[Len(t)] \in chars THEN RStrip(SubSeq(t, 1, Len(t) - 1), chars) ELSE t

\* the normalizer of tag_parser: lambda s: s.lower().strip('"')
LowerStrip(t) == RStrip(LStrip([i \in 1..Len(t) |-> Lower(t[i])], {"\""}), {"\""})

\* self.normalize(i); "None" is not callable and leaves the match alone
Normalize(fn, t) == IF fn = "lower_strip" THEN LowerStrip(t) ELSE t

\* [self.normalize(i) for i in matches] if callable(self.normalize)
NormalizeAll(fn, ms) == [i \in 1..Len(ms) |-> Normalize(fn, ms[i])]

\* str < str: lexicographic on code points, a proper prefix is smaller
StrLess(x, y) ==
  LET n == IF Len(x) < Len(y) THEN Len(x) ELSE Len(y)
      diff == {i \in 1..n : x[i] # y[i]}
  IN IF diff = {} THEN Len(x) < Len(y)
     ELSE Ord(x[Min(diff)]) < Ord(y[Min(diff)])

RECURSIVE Insert(_, _)
Insert(sorted, t) ==
  IF sorted = <<>> THEN <<t>>
  ELSE IF StrLess(t, sorted[1]) THEN <<t>> \o sorted
  ELSE <<sorted[1]>> \o Insert(Tail(sorted), t)

RECURSIVE SortList(_)
\* matches.sort(): ascending, stable
SortList(ms) ==
  IF ms = <<>> THEN <<>>
  ELSE Insert(SortList(SubSeq(ms, 1, Len(ms) - 1)), ms[Len(ms)])

\* variant: sort first, then normalize
Terms_SortFirst(fn, srt, ms) == NormalizeAll(fn, IF srt THEN SortList(ms) ELSE ms)

\* lines 310-311: normalize first, then sort
Terms(fn, srt, ms) ==
  LET normalized == NormalizeAll(fn, ms)
  IN IF srt THEN SortList(normalized) ELSE normalized

\* variant: None is not added to the keys
BucketKeys_Configured(gs) == Range(gs)

\* keys of the local dict groups: the configured markers and always None
BucketKeys(gs) == Range(gs) \cup {"None"}

\* key a term is appended under: i[0] if i[0] in self.groups else None
KeyOf(gs, t) == IF t[1] \in Range(gs) THEN t[1] ELSE "None"

\* variant: append(i), the marker stays on the term
Stored_KeepMarker(gs, t) == t

\* value appended: i[1:] under a marker, i itself under None
Stored(gs, t) == IF t[1] \in Range(gs) THEN Tail(t) ELSE t

\* lines 314-321: the dict after the loop over matches
Buckets(gs, ts) ==
  [k \in BucketKeys(gs) |->
     LET mine == SelectSeq(ts, LAMBDA t : KeyOf(gs, t) = k)
     IN [i \in 1..Len(mine) |-> Stored(gs, mine[i])]]

\* i[0] of an empty term raises IndexError inside the loop
IndexErrorIn(gs, ts) == gs # <<>> /\ \E i \in 1..Len(ts) : ts[i] = <<>>

RECURSIVE Pairs_Reversed(_, _, _)
\* variant: the pairs of a later marker are put in front
Pairs_Reversed(gs, b, n) ==
  IF n > Len(gs) THEN <<>>
  ELSE Pairs_Reversed(gs, b, n + 1) \o [i \in 1..Len(b[gs[n]]) |-> <<gs[n], b[gs[n]][i]>>]

RECURSIVE Pairs(_, _, _)
\* lines 326-329: for group in self.groups: extend with (group, match)
Pairs(gs, b, n) ==
  IF n > Len(gs) THEN <<>>
  ELSE [i \in 1..Len(b[gs[n]]) |-> <<gs[n], b[gs[n]][i]>>] \o Pairs(gs, b, n + 1)

\* self.result(x) / self.group(x) for list, tuple and set
Container(type, items) ==
  [type |-> type, items |-> IF type = "set" THEN Range(items) ELSE items]

\* variant: a list or tuple grouping leaves the empty buckets out
Shape_SkipEmpty(gs, g, res, ts) ==
  IF gs = <<>> THEN Container(res, ts)
  ELSE IF g = "dict" THEN [type |-> "dict", items |-> Buckets(gs, ts)]
  ELSE IF g \in {"False", "None"} THEN Container(res, Pairs(gs, Buckets(gs, ts), 1))
  ELSE Container(g, SelectSeq([n \in 1..Len(gs) |-> Buckets(gs, ts)[gs[n]]], LAMBDA b : b # <<>>))

\* lines 312-333: what split returns for the terms ts
Shape(gs, g, res, ts) ==
  IF gs = <<>> THEN Container(res, ts)
  ELSE IF g = "dict" THEN [type |-> "dict", items |-> Buckets(gs, ts)]
  ELSE IF g \in {"False", "None"} THEN Container(res, Pairs(gs, Buckets(gs, ts), 1))
  ELSE Container(g, [n \in 1..Len(gs) |-> Buckets(gs, ts)[gs[n]]])

NoResult == [type |-> "none", items |-> <<>>]

(***************************************************************************)
(* State: the processor's fields, and one split call on it.                *)
(***************************************************************************)
VARIABLES
  args,       \* the arguments of the constructor call, where they are kept
  pattern,    \* self.pattern / self.regex
  groups,     \* self.groups
  group,      \* self.group
  normalize,  \* self.normalize
  sort,       \* self.sort
  result,     \* self.result
  value,      \* the argument of split
  matches,    \* split's local matches right after findall
  pc,         \* "unbuilt", "failed", "ready", "returned", "raised", "shared"
  returned,   \* the value of the object split returned
  raised,     \* the exception the constructor or split raised
  allocated,  \* number of objects created so far
  returnedAt, \* the address of the object split returned
  earlier,    \* the addresses of the objects earlier calls returned
  frames,     \* the frames of the split calls of concurrent callers
  lazyInstance, \* LazySingleton._instance
  instance,   \* Singular.instance
  shared,     \* Borg._Borg__shared
  objects,    \* the instances created, by address
  trace,      \* the calls made on the classes and what they returned
  tags,       \* the Tag instances created, by address: their __dict__
  lists,      \* the list objects that hold children, by address
  input,      \* the arguments of the one call of a function
  output      \* what that call returned or raised

config == <<pattern, groups, normalize, sort, result>>

heapvars == <<allocated, returnedAt, earlier>>

objvars == <<lazyInstance, instance, shared, objects, trace>>

tagvars == <<tags, lists>>

fnvars == <<input, output>>

vars == <<args, config, group, value, matches, pc, returned, raised, heapvars, frames, objvars,
          tagvars, fnvars>>

\* no address: None, or nothing returned
NoAddress == 0 - 1

\* where the interpreter keeps the one empty tuple it may hand out again
EmptyTupleAddress == 0

\* constructor arguments
SeparatorArgs == {<<" ", "\t">>}
DefaultQuotes == <<"\"", "'">>
QuoteArgs == {DefaultQuotes, <<>>}
GroupsArgs == {<<>>, <<"None", "+", "-">>, <<"+", "-">>}
GroupArgs == {"False", "True", "tuple"}
NormalizeArgs == {"None", "lower_strip"}
SortArgs == BOOLEAN
ResultArgs == {"list", "set"}

\* the groups argument as passed: kind is "list", "tuple", "str" or "None"
GroupsForm(kind, items) == [kind |-> kind, items |-> items]

\* the arguments of one constructor call
Arguments(separators, quotes, gf, g, nz, srt, res) ==
  [separators |-> separators, quotes |-> quotes, groups |-> gf, group |-> g,
   normalize |-> nz, sort |-> srt, result |-> res]

\* the constructor has returned and its arguments are not looked at again
NotKept == Arguments(<<>>, <<>>, GroupsForm("list", <<>>), "False", "None", FALSE, "list")

\* values of the argument: a str, or something that is not a str
ValuesOver(alphabet) ==
  {[str |-> TRUE, text |-> t] : t \in TextsOver(alphabet)} \cup {[str |-> FALSE, text |-> <<>>]}

\* __init__(separators, quotes, groups, group, normalize, sort, result)
Construct(separators, quotes, gs, g, nz, srt, res) ==
  /\ pattern = Compile(separators, quotes, gs)
  /\ groups = gs
  /\ group = IF g = "True" THEN "dict" ELSE g
  /\ normalize = nz
  /\ sort = srt
  /\ result = res

\* no call has been made yet
NotCalled ==
  /\ matches = <<>>
  /\ pc = "ready"
  /\ returned = NoResult
  /\ raised = "none"

\* nothing has been created or returned yet
NoHeap ==
  /\ allocated = 0
  /\ returnedAt = NoAddress
  /\ earlier = {}

\* no concurrent caller
NoFrames == frames = <<>>

\* the three classes right after their definition
NoObjects ==
  /\ lazyInstance = NoAddress
  /\ instance = NoAddress
  /\ shared = <<>>
  /\ objects = <<>>
  /\ trace = <<>>

\* no Tag exists
NoTags ==
  /\ tags = <<>>
  /\ lists = <<>>

\* no function has been called
NoFunction ==
  /\ input = [fn |-> "none"]
  /\ output = [status |-> "none"]

\* the default quotes with every groups, group, normalize, sort and result,
\* on texts of words, markers and double quotes
Init ==
  /\ \E separators \in SeparatorArgs, gs \in GroupsArgs, g \in GroupArgs,
        nz \in NormalizeArgs, srt \in SortArgs, res \in ResultArgs :
       /\ gs = <<>> => g = "False"
       /\ args = NotKept
       /\ Construct(separators, DefaultQuotes, gs, g, nz, srt, res)
  /\ value \in ValuesOver(WordAlphabet)
  /\ NotCalled
  /\ NoHeap /\ NoFrames /\ NoObjects /\ NoTags /\ NoFunction

\* every pattern, on texts of the whole alphabet; a processor with groups
\* neither normalizes nor sorts, and the result is a list
InitTokens ==
  /\ \E separators \in SeparatorArgs, quotes \in QuoteArgs, gs \in GroupsArgs, g \in GroupArgs,
        nz \in NormalizeArgs, srt \in SortArgs :
       /\ gs = <<>> => g = "False"
       /\ gs # <<>> => nz = "None" /\ srt = FALSE
       /\ args = NotKept
       /\ Construct(separators, quotes, gs, g, nz, srt, "list")
  /\ value \in ValuesOver(Alphabet)
  /\ NotCalled
  /\ NoHeap /\ NoFrames /\ NoObjects /\ NoTags /\ NoFunction

\* the object does not exist: no field is set
NoPattern == [lead |-> {}, alts |-> <<>>, trail |-> {}]

Unbuilt ==
  /\ pattern = NoPattern
  /\ groups = <<>>
  /\ group = "unset"
  /\ normalize = "unset"
  /\ sort = FALSE
  /\ result = "unset"

\* bool(groups) of line 291: None and the empty str, list and tuple are false
Truthy(gf) == gf.kind # "None" /\ gf.items # <<>>

\* variant: the pattern text of an empty separator string compiles
GroupTerminated_Always(separators) == TRUE

\* re.compile: a "]" straight after "[" or "[^" is a literal, so without a
\* separator character '[^%s]+' ')' '[%s]*' is the text '[^]+)[]*', one
\* class that holds the ")", and the "(" of line 290 is never terminated
GroupTerminated(separators) == separators # <<>>

\* the exception __init__(a) ends with, "none" when it returns
InitRaises(a) ==
  IF Truthy(a.groups) /\ a.groups.kind = "str" THEN "TypeError"   \* line 291: None in '+-'
  ELSE IF ~GroupTerminated(a.separators) THEN "re.error"          \* line 297
  ELSE IF a.groups.kind = "None" THEN "TypeError"                 \* line 299: list(None)
  ELSE "none"

\* characters of the texts split after a constructor call
BuildAlphabet == {" ", "+", "a"}

\* the forms of groups: lists, a tuple, strs, None
GroupsForms ==
  {GroupsForm("list", <<>>), GroupsForm("list", <<"None", "+", "-">>),
   GroupsForm("tuple", <<"+", "-">>), GroupsForm("str", <<"+", "-">>),
   GroupsForm("str", <<>>), GroupsForm("None", <<>>)}

\* constructor calls, with and without separators
BuildArgs ==
  {Arguments(separators, quotes, gf, g, "None", FALSE, "list") :
     separators \in SeparatorArgs \cup {<<>>}, quotes \in QuoteArgs,
     gf \in GroupsForms, g \in {"False", "tuple"}}

\* a constructor call is about to be made
InitBuild ==
  /\ args \in BuildArgs
  /\ Unbuilt
  /\ value \in ValuesOver(BuildAlphabet)
  /\ matches = <<>>
  /\ pc = "unbuilt"
  /\ returned = NoResult
  /\ raised = "none"
  /\ NoHeap /\ NoFrames /\ NoObjects /\ NoTags /\ NoFunction

\* KeywordProcessor(**args)
New ==
  /\ pc = "unbuilt"
  /\ IF InitRaises(args) # "none"
     THEN /\ pc' = "failed"
          /\ raised' = InitRaises(args)
          /\ UNCHANGED <<config, group>>
     ELSE /\ pattern' = Compile(args.separators, args.quotes, args.groups.items)
          /\ groups' = args.groups.items
          /\ group' = IF args.group = "True" THEN "dict" ELSE args.group
          /\ normalize' = args.normalize
          /\ sort' = args.sort
          /\ result' = args.result
          /\ pc' = "ready"
          /\ UNCHANGED raised
  /\ UNCHANGED <<tagvars, fnvars, args, value, matches, returned, heapvars, frames, objvars>>

\* variant: one container is kept and handed out by every call
AddressesFor_Cached(obj, n) == {1}

\* where the object built by self.result(x), self.group(x) or dict(x) can
\* be: it is a new object, but tuple() of nothing may be the interpreter's
\* one empty tuple
AddressesFor(obj, n) ==
  IF obj.type = "tuple" /\ obj.items = <<>> THEN {EmptyTupleAddress, n + 1} ELSE {n + 1}

\* the container obj is created and returned
ReturnAt(obj) ==
  \E a \in AddressesFor(obj, allocated) :
    /\ returnedAt' = a
    /\ allocated' = IF a > allocated THEN a ELSE allocated

\* variant: line 306 is missing, a value that is not a str is matched as ""
Split_NoTypeCheck ==
  /\ pc = "ready"
  /\ LET found == FindAll(pattern, value.text)
         ts == Terms(normalize, sort, found)
     IN /\ matches' = found
        /\ IF IndexErrorIn(groups, ts)
           THEN /\ pc' = "raised"
                /\ raised' = "IndexError"
                /\ UNCHANGED returned
           ELSE /\ pc' = "returned"
                /\ returned' = Shape(groups, group, result, ts)
                /\ ReturnAt(Shape(groups, group, result, ts))
                /\ UNCHANGED raised
  /\ pc' = "raised" => UNCHANGED <<allocated, returnedAt>>
  /\ UNCHANGED <<tagvars, fnvars, args, config, group, value, earlier, frames, objvars>>

\* split(value)
Split ==
  /\ pc = "ready"
  /\ IF ~value.str
     THEN /\ pc' = "raised"
          /\ raised' = "TypeError"
          /\ UNCHANGED <<matches, returned, allocated, returnedAt>>
     ELSE LET found == FindAll(pattern, value.text)
              ts == Terms(normalize, sort, found)
          IN /\ matches' = found
             /\ IF IndexErrorIn(groups, ts)
                THEN /\ pc' = "raised"
                     /\ raised' = "IndexError"
                     /\ UNCHANGED <<returned, allocated, returnedAt>>
                ELSE /\ pc' = "returned"
                     /\ returned' = Shape(groups, group, result, ts)
                     /\ ReturnAt(Shape(groups, group, result, ts))
                     /\ UNCHANGED raised
  /\ UNCHANGED <<tagvars, fnvars, args, config, group, value, earlier, frames, objvars>>

\* the texts of a caller that calls again and again, and a value that is no str
CallValues ==
  {[str |-> TRUE, text |-> t] : t \in UNION {[1..n -> BuildAlphabet] : n \in 0..MaxCallLen}}
    \cup {[str |-> FALSE, text |-> <<>>]}

\* processors that are called again and again: without groups and with the
\* groups of search_parser, every group, normalize, sort and result
CallArgs ==
  {a \in {Arguments(separators, DefaultQuotes, GroupsForm("list", gs), g, nz, srt, res) :
            separators \in SeparatorArgs, gs \in {<<>>, <<"None", "+", "-">>},
            g \in GroupArgs, nz \in NormalizeArgs, srt \in SortArgs,
            res \in ResultArgs \cup {"tuple"}} :
     a.groups.items = <<>> => a.group = "False"}

\* a processor, its constructor arguments remembered, before its first call
InitCalls ==
  /\ args \in CallArgs
  /\ Construct(args.separators, args.quotes, args.groups.items, args.group,
               args.normalize, args.sort, args.result)
  /\ value \in CallValues
  /\ NotCalled
  /\ NoHeap /\ NoFrames /\ NoObjects /\ NoTags /\ NoFunction

\* the caller keeps what came back and calls split(v) on the same processor
Call ==
  /\ pc \in {"returned", "raised"}
  /\ allocated < MaxCalls
  /\ \E v \in CallValues : value' = v
  /\ earlier' = IF pc = "returned" THEN earlier \cup {returnedAt} ELSE earlier
  /\ returnedAt' = NoAddress
  /\ returned' = NoResult
  /\ raised' = "none"
  /\ matches' = <<>>
  /\ pc' = "ready"
  /\ UNCHANGED <<tagvars, fnvars, args, config, group, allocated, frames, objvars>>

(***************************************************************************)
(* split, statement by statement, called by several callers at once on one *)
(* processor.  A frame holds the locals of one call.                       *)
(***************************************************************************)

\* the callers that share the processor
Callers == {"A", "B"}

\* the single-call variables are not used
NoCall ==
  /\ value = [str |-> FALSE, text |-> <<>>]
  /\ matches = <<>>
  /\ returned = NoResult
  /\ raised = "none"

\* the frame of a call that is about to execute line 306
Entered(v) ==
  [pc |-> "check", value |-> v, matches |-> <<>>, buckets |-> <<>>,
   returned |-> NoResult, raised |-> "none"]

\* processors shared by the callers: one without groups that normalizes and
\* sorts, and search_parser with each group
SharedArgs ==
  {Arguments(separators, DefaultQuotes, GroupsForm("list", <<>>), "False", "lower_strip", TRUE, "list") :
     separators \in SeparatorArgs}
  \cup {Arguments(separators, DefaultQuotes, GroupsForm("list", <<"None", "+", "-">>), g, "None", FALSE, "list") :
          separators \in SeparatorArgs, g \in GroupArgs}

\* every caller has called split on the one processor
InitThreads ==
  /\ \E a \in SharedArgs :
       Construct(a.separators, a.quotes, a.groups.items, a.group, a.normalize, a.sort, a.result)
  /\ args = NotKept
  /\ NoCall
  /\ pc = "shared"
  /\ frames \in [Callers -> {Entered(v) : v \in CallValues}]
  /\ NoHeap /\ NoObjects /\ NoTags /\ NoFunction

\* variant: a local is an attribute of the processor, one for all callers
WithLocal_OnSelf(fs, c, name, x) == [d \in DOMAIN fs |-> [fs[d] EXCEPT ![name] = x]]

\* the frames after caller c binds its local name to x
WithLocal(fs, c, name, x) == [fs EXCEPT ![c][name] = x]

\* the frames after caller c goes on to statement next
Goto(fs, c, next) == [fs EXCEPT ![c].pc = next]

\* line 306
TypeCheck(c) ==
  /\ frames[c].pc = "check"
  /\ frames' = IF frames[c].value.str
                THEN Goto(frames, c, "findall")
                ELSE Goto(WithLocal(frames, c, "raised", "TypeError"), c, "raised")

\* line 308
Match(c) ==
  /\ frames[c].pc = "findall"
  /\ frames' = Goto(WithLocal(frames, c, "matches", FindAll(pattern, frames[c].value.text)),
                    c, "terms")

\* lines 310-311
NormalizeSort(c) ==
  /\ frames[c].pc = "terms"
  /\ frames' = Goto(WithLocal(frames, c, "matches", Terms(normalize, sort, frames[c].matches)),
                    c, "ungrouped")

\* line 312
Ungrouped(c) ==
  /\ frames[c].pc = "ungrouped"
  /\ frames' = IF groups = <<>>
                THEN Goto(WithLocal(frames, c, "returned", Container(result, frames[c].matches)),
                          c, "returned")
                ELSE Goto(frames, c, "buckets")

\* lines 314-321
Bucket(c) ==
  /\ frames[c].pc = "buckets"
  /\ frames' = IF IndexErrorIn(groups, frames[c].matches)
                THEN Goto(WithLocal(frames, c, "raised", "IndexError"), c, "raised")
                ELSE Goto(WithLocal(frames, c, "buckets", Buckets(groups, frames[c].matches)),
                          c, "mode")

\* lines 323-333: what is made of the local dict b
Grouping(gs, g, res, b) ==
  IF g = "dict" THEN [type |-> "dict", items |-> b]
  ELSE IF g \in {"False", "None"} THEN Container(res, Pairs(gs, b, 1))
  ELSE Container(g, [n \in 1..Len(gs) |-> b[gs[n]]])

\* lines 323-333
Group(c) ==
  /\ frames[c].pc = "mode"
  /\ frames' = Goto(WithLocal(frames, c, "returned",
                              Grouping(groups, group, result, frames[c].buckets)),
                    c, "returned")

\* one caller executes its next statement
Step ==
  /\ \E c \in Callers :
       \/ TypeCheck(c)
       \/ Match(c)
       \/ NormalizeSort(c)
       \/ Ungrouped(c)
       \/ Bucket(c)
       \/ Group(c)
  /\ UNCHANGED <<tagvars, fnvars, args, config, group, value, matches, pc, returned, raised, heapvars, objvars>>

(***************************************************************************)
(* LazySingleton, Singleton/Singular and Borg.  An object is known by its  *)
(* address, its position in objects; trace records every call, whether the *)
(* class's constructor ran in it, and the address it returned (NoAddress   *)
(* when it raised).                                                        *)
(***************************************************************************)

\* attribute names and values assigned on Borg instances
AttrNames == {"foo"}
AttrValues == {27, 28}

\* a call of op, with or without arguments
Entry(op, withArgs, ret, ran) ==
  [op |-> op, args |-> withArgs, ret |-> ret, ran |-> ran, name |-> "", val |-> 0]

\* the assignment obj.n = v
Assignment(obj, n, v) ==
  [op |-> "setattr", args |-> TRUE, ret |-> obj, ran |-> FALSE, name |-> n, val |-> v]

\* a new instance: object.__new__ gives it a __dict__ of its own
Instance(class, dict) == [class |-> class, dict |-> dict, own |-> <<>>]

\* the dict d after d[n] = v
Store(d, n, v) == [k \in DOMAIN d \cup {n} |-> IF k = n THEN v ELSE d[k]]

\* no KeywordProcessor is involved
NoProcessor ==
  /\ args = NotKept
  /\ Unbuilt
  /\ NoCall
  /\ pc = "unbuilt"

\* the three class statements have run, nothing has been called
InitObjects ==
  /\ NoProcessor
  /\ NoHeap /\ NoFrames /\ NoObjects /\ NoTags /\ NoFunction

\* variant: line 34 is missing, new always constructs
LazyMissing_Always(stored) == TRUE

\* line 34: cls._instance is None
LazyMissing(stored) == stored = NoAddress

\* variant: line 109 is missing, the call always constructs
SingularMissing_Always(stored) == TRUE

\* line 109: cls.instance is None
SingularMissing(stored) == stored = NoAddress

\* variant: line 169 is missing, the instance keeps its own __dict__
BoundDict_Own == "own"

\* line 169: self.__dict__ = self.__shared
BoundDict == "shared"

\* LazySingleton.new(*args): a class without __init__ takes no arguments
LazySingletonNew ==
  /\ Len(trace) < MaxTrace
  /\ \E withArgs \in BOOLEAN :
       IF LazyMissing(lazyInstance)
       THEN IF withArgs
            THEN /\ trace' = Append(trace, Entry("LazySingleton.new", withArgs, NoAddress, TRUE))
                 /\ UNCHANGED <<lazyInstance, objects, allocated>>
            ELSE /\ allocated' = allocated + 1
                 /\ objects' = Append(objects, Instance("LazySingleton", "own"))
                 /\ lazyInstance' = allocated + 1
                 /\ trace' = Append(trace, Entry("LazySingleton.new", withArgs, allocated + 1, TRUE))
       ELSE /\ trace' = Append(trace, Entry("LazySingleton.new", withArgs, lazyInstance, FALSE))
            /\ UNCHANGED <<lazyInstance, objects, allocated>>
  /\ UNCHANGED <<tagvars, fnvars, args, config, group, value, matches, pc, returned, raised,
                 returnedAt, earlier, frames, instance, shared>>

\* LazySingleton(*args)
LazySingletonDirect ==
  /\ Len(trace) < MaxTrace
  /\ \E withArgs \in BOOLEAN :
       IF withArgs
       THEN /\ trace' = Append(trace, Entry("LazySingleton", withArgs, NoAddress, TRUE))
            /\ UNCHANGED <<objects, allocated>>
       ELSE /\ allocated' = allocated + 1
            /\ objects' = Append(objects, Instance("LazySingleton", "own"))
            /\ trace' = Append(trace, Entry("LazySingleton", withArgs, allocated + 1, TRUE))
  /\ UNCHANGED <<tagvars, fnvars, args, config, group, value, matches, pc, returned, raised,
                 returnedAt, earlier, frames, lazyInstance, instance, shared>>

\* Singular(*args): Singleton.__call__
SingularCall ==
  /\ Len(trace) < MaxTrace
  /\ \E withArgs \in BOOLEAN :
       IF SingularMissing(instance)
       THEN IF withArgs
            THEN /\ trace' = Append(trace, Entry("Singular", withArgs, NoAddress, TRUE))
                 /\ UNCHANGED <<instance, objects, allocated>>
            ELSE /\ allocated' = allocated + 1
                 /\ objects' = Append(objects, Instance("Singular", "own"))
                 /\ instance' = allocated + 1
                 /\ trace' = Append(trace, Entry("Singular", withArgs, allocated + 1, TRUE))
       ELSE /\ trace' = Append(trace, Entry("Singular", withArgs, instance, FALSE))
            /\ UNCHANGED <<instance, objects, allocated>>
  /\ UNCHANGED <<tagvars, fnvars, args, config, group, value, matches, pc, returned, raised,
                 returnedAt, earlier, frames, lazyInstance, shared>>

\* Borg()
BorgNew ==
  /\ Len(trace) < MaxTrace
  /\ allocated' = allocated + 1
  /\ objects' = Append(objects, Instance("Borg", BoundDict))
  /\ trace' = Append(trace, Entry("Borg", FALSE, allocated + 1, TRUE))
  /\ UNCHANGED <<tagvars, fnvars, args, config, group, value, matches, pc, returned, raised,
                 returnedAt, earlier, frames, lazyInstance, instance, shared>>

\* a.n = v on a Borg instance a: the value goes into a.__dict__
BorgSetAttr ==
  /\ Len(trace) < MaxTrace
  /\ \E a \in DOMAIN objects, n \in AttrNames, v \in AttrValues :
       /\ objects[a].class = "Borg"
       /\ IF objects[a].dict = "shared"
          THEN /\ shared' = Store(shared, n, v)
               /\ UNCHANGED objects
          ELSE /\ objects' = [objects EXCEPT ![a].own = Store(@, n, v)]
               /\ UNCHANGED shared
       /\ trace' = Append(trace, Assignment(a, n, v))
  /\ UNCHANGED <<tagvars, fnvars, args, config, group, value, matches, pc, returned, raised,
                 heapvars, frames, lazyInstance, instance>>

\* a.__dict__ = {} on a Borg instance a: the instance gets a dict of its own
BorgSetDict ==
  /\ Len(trace) < MaxTrace
  /\ \E a \in DOMAIN objects :
       /\ objects[a].class = "Borg"
       /\ objects' = [objects EXCEPT ![a].dict = "own", ![a].own = <<>>]
       /\ trace' = Append(trace, Assignment(a, "__dict__", 0))
  /\ UNCHANGED <<tagvars, fnvars, args, config, group, value, matches, pc, returned, raised,
                 heapvars, frames, lazyInstance, instance, shared>>

\* search_parser.group = dict / False: the attribute of a processor with
\* groups is reassigned between calls
SetGroup ==
  /\ pc = "ready"
  /\ groups # <<>>
  /\ \E g \in {"dict", "False", "tuple"} :
       /\ g # group
       /\ group' = g
  /\ UNCHANGED <<tagvars, fnvars, args, config, value, matches, pc, returned, raised, heapvars, frames, objvars>>

Next == Split \/ SetGroup

Spec == Init /\ [][Next]_vars

SpecTokens == InitTokens /\ [][Next]_vars

NextBuild == New \/ Split

NextCalls == Split \/ Call

NextThreads == Step

NextObjects ==
  \/ LazySingletonNew
  \/ LazySingletonDirect
  \/ SingularCall
  \/ BorgNew
  \/ BorgSetAttr
  \/ BorgSetDict

SpecObjects == InitObjects /\ [][NextObjects]_vars

SpecThreads == InitThreads /\ [][NextThreads]_vars

SpecCalls == InitCalls /\ [][NextCalls]_vars

SpecBuild == InitBuild /\ [][NextBuild]_vars

(***************************************************************************)
(* Text processing: uninorm and urlsafe. Text is a sequence of code        *)
(* points, bytes a sequence of numbers below 256.                          *)
(***************************************************************************)

\* longest name, longest text and longest byte string passed in
MaxText == 3

\* the bytes used: CR, LF, "e", and 0xCC 0x81, which is U+0301 in UTF-8;
\* 0xCC is a letter and 0x81 is undefined in Windows-1252
ByteAlphabet == {13, 10, 101, 204, 129}

\* the code points used in text: CR, LF, "e", the combining acute accent
TextAlphabet == {13, 10, 101, 769}

\* the code points used in names: "a", space, "-", "_", the combining accent
NameAlphabet == {97, 32, 45, 769}

RECURSIVE Utf8(_)
\* bytes.decode('utf8') for sequences of one and two bytes: <<>> stands
\* for UnicodeDecodeError, a decoded text is wrapped in a tuple
Utf8(bs) ==
  IF bs = <<>> THEN <<(<<>>)>>
  ELSE IF bs[1] < 128
  THEN LET rest == Utf8(Tail(bs))
       IN IF rest = <<>> THEN <<>> ELSE <<(<<bs[1]>> \o rest[1])>>
  ELSE IF bs[1] \in 194..223 /\ Len(bs) >= 2 /\ bs[2] \in 128..191
  THEN LET rest == Utf8(SubSeq(bs, 3, Len(bs)))
       IN IF rest = <<>> THEN <<>>
          ELSE <<(<<(bs[1] - 192) * 64 + (bs[2] - 128)>> \o rest[1])>>
  ELSE <<>>

\* Windows-1252, bytes 0x80 to 0x9F: the code point, or -1 where undefined
Cp1252High ==
  <<8364, 0 - 1, 8218, 402, 8222, 8230, 8224, 8225, 710, 8240, 352, 8249, 338, 0 - 1, 381, 0 - 1,
    0 - 1, 8216, 8217, 8220, 8221, 8226, 8211, 8212, 732, 8482, 353, 8250, 339, 0 - 1, 382, 376>>

\* the code point of one byte in Windows-1252
Cp1252Char(b) == IF b \in 128..159 THEN Cp1252High[b - 127] ELSE b

\* bytes.decode('Windows-1252'): <<>> stands for UnicodeDecodeError
Cp1252(bs) ==
  IF \E i \in 1..Len(bs) : Cp1252Char(bs[i]) < 0 THEN <<>>
  ELSE <<[i \in 1..Len(bs) |-> Cp1252Char(bs[i])]>>

\* lines 36-40: decode with the encoding, on failure with the fallback
Decode(bs) == IF Utf8(bs) # <<>> THEN Utf8(bs) ELSE Cp1252(bs)

\* canonical composition of a starter with the combining acute accent:
\* "e" gives U+00E9, "a" gives U+00E1, the other starters used have none
Composed(c, m) ==
  IF m # 769 THEN 0 ELSE IF c = 101 THEN 233 ELSE IF c = 97 THEN 225 ELSE 0

RECURSIVE Nfc(_)
\* normalize('NFC', value) on these code points: a starter takes the
\* combining mark that follows it where a composed form exists
Nfc(s) ==
  IF Len(s) < 2 THEN s
  ELSE IF Composed(s[1], s[2]) # 0
  THEN Nfc(<<Composed(s[1], s[2])>> \o SubSeq(s, 3, Len(s)))
  ELSE <<s[1]>> \o Nfc(Tail(s))

RECURSIVE ReplaceCrLf(_)
\* value.replace('\r\n', '\n'): one pass from the left over the pairs of the
\* input; what a replacement leaves behind is not looked at again
ReplaceCrLf(s) ==
  IF Len(s) < 2 THEN s
  ELSE IF s[1] = 13 /\ s[2] = 10 THEN <<10>> \o ReplaceCrLf(SubSeq(s, 3, Len(s)))
  ELSE <<s[1]>> \o ReplaceCrLf(Tail(s))

Returns(v) == [status |-> "returned", value |-> v]

Raises(e) == [status |-> "raised", value |-> e]

\* uninorm(value): bytes are decoded first
Uninorm(isBytes, v) ==
  IF isBytes /\ Decode(v) = <<>> THEN Raises("UnicodeDecodeError")
  ELSE Returns(ReplaceCrLf(Nfc(IF isBytes THEN Decode(v)[1] ELSE v)))

\* \w: letters, digits and the underscore; 204, 225 and 233 are letters,
\* the combining accent 769 is not
Word(c) == c = 95 \/ c \in 48..57 \/ c \in 65..90 \/ c \in 97..122 \/ c \in {204, 225, 233}

\* replacement='-'
Replacement == <<45>>

RECURSIVE Sub(_)
\* unsafe.sub(replacement, s): every maximal run of \W becomes one '-'
Sub(s) ==
  IF s = <<>> THEN <<>>
  ELSE IF Word(s[1]) THEN <<s[1]>> \o Sub(Tail(s))
  ELSE IF Len(s) >= 2 /\ ~Word(s[2]) THEN Sub(Tail(s))
  ELSE Replacement \o Sub(Tail(s))

RECURSIVE Str(_)
\* str(n) of a natural number: its decimal digits
Str(n) == IF n < 10 THEN <<48 + n>> ELSE Str(n \div 10) \o <<48 + (n % 10)>>

\* the f-string of line 119
Candidate(base, suffix) ==
  base \o (IF suffix # 0 THEN Replacement ELSE <<>>) \o (IF suffix # 0 THEN Str(suffix) ELSE <<>>)

\* variant: the loop is left after the first candidate
Loop_Once(base, suffix, collection) == Candidate(base, suffix)

RECURSIVE Loop(_, _, _)
\* lines 118-121: while True, break on a candidate not in collection
Loop(base, suffix, collection) ==
  IF Candidate(base, suffix) \notin collection THEN Candidate(base, suffix)
  ELSE Loop(base, suffix + 1, collection)

\* line 115: unsafe.sub(replacement, uninorm(name)).strip(replacement)
Base(name) ==
  LET s == Sub(Uninorm(FALSE, name).value)
  IN RStrip(LStrip(s, Range(Replacement)), Range(Replacement))

\* urlsafe(name, collection); of the list collection only membership is used
Urlsafe(name, collection) == Returns(Loop(Base(name), 0, collection))

\* texts and byte strings
StringsOver(alphabet) == UNION {[1..n -> alphabet] : n \in 0..MaxText}

\* the calls uninorm(value) on text and on bytes
UninormCalls ==
  {[fn |-> "uninorm", bytes |-> FALSE, text |-> t, collection |-> {}] : t \in StringsOver(TextAlphabet)}
    \cup {[fn |-> "uninorm", bytes |-> TRUE, text |-> b, collection |-> {}] : b \in StringsOver(ByteAlphabet)}

\* what a collection may hold: '', 'a', 'a-1', 'a-2', '-1', 'a-a', 'a1'
Taken == {<<>>, <<97>>, <<97, 45, 49>>, <<97, 45, 50>>, <<45, 49>>, <<97, 45, 97>>, <<97, 49>>}

\* the calls urlsafe(name, collection)
UrlsafeCalls ==
  {[fn |-> "urlsafe", bytes |-> FALSE, text |-> n, collection |-> c] :
     n \in StringsOver(NameAlphabet), c \in SUBSET Taken}

\* no KeywordProcessor, no object, no Tag is involved
FunctionsOnly ==
  /\ NoProcessor
  /\ NoHeap /\ NoFrames /\ NoObjects /\ NoTags

InitText ==
  /\ FunctionsOnly
  /\ input \in UninormCalls \cup UrlsafeCalls
  /\ output = [status |-> "none"]

\* the one call of uninorm
CallUninorm ==
  /\ input.fn = "uninorm" /\ output.status = "none"
  /\ output' = Uninorm(input.bytes, input.text)
  /\ UNCHANGED <<tagvars, input, args, config, group, value, matches, pc, returned, raised,
                 heapvars, frames, objvars>>

\* the one call of urlsafe
CallUrlsafe ==
  /\ input.fn = "urlsafe" /\ output.status = "none"
  /\ output' = Urlsafe(input.text, input.collection)
  /\ UNCHANGED <<tagvars, input, args, config, group, value, matches, pc, returned, raised,
                 heapvars, frames, objvars>>

NextText == CallUninorm \/ CallUrlsafe

SpecText == InitText /\ [][NextText]_vars

(***************************************************************************)
(* Store hours: the linear scan and the bisection. A time of day is the    *)
(* text "HH:MM" as code points, compared as Python compares str.           *)
(***************************************************************************)

\* "%02d:%02d" % (h, m)
Time(h, m) == <<48 + (h \div 10), 48 + (h % 10), 58, 48 + (m \div 10), 48 + (m % 10)>>

\* the list times of the notebook: (time, available)
times ==
  <<<<Time(0, 0), FALSE>>, <<Time(7, 30), TRUE>>, <<Time(12, 0), FALSE>>,
    <<Time(13, 0), TRUE>>, <<Time(17, 30), FALSE>>>>

\* str < str on texts of code points
TextLess(x, y) ==
  LET n == IF Len(x) < Len(y) THEN Len(x) ELSE Len(y)
      diff == {i \in 1..n : x[i] # y[i]}
  IN IF diff = {} THEN Len(x) < Len(y) ELSE x[Min(diff)] < y[Min(diff)]

RECURSIVE LinearScan(_, _, _)
\* the for loop over times from entry i on: break at the first entry whose
\* time is greater than q, is_open is the flag of the last entry before it
LinearScan(q, i, isOpen) ==
  IF i > Len(times) \/ TextLess(q, times[i][1]) THEN isOpen
  ELSE LinearScan(q, i + 1, times[i][2])

\* (time, available) < (q, None): the first items decide unless they are
\* equal, and then bool < None is a TypeError
TupleLess(entry, q) ==
  IF entry[1] = q THEN "TypeError" ELSE IF TextLess(entry[1], q) THEN "less" ELSE "not less"

RECURSIVE BisectLeft(_, _, _)
\* bisect_left(times, (q, None)) between lo and hi (counted from 0); -1
\* stands for the TypeError of a comparison
BisectLeft(q, lo, hi) ==
  IF lo >= hi THEN lo
  ELSE LET mid == (lo + hi) \div 2
           less == TupleLess(times[mid + 1], q)
       IN IF less = "TypeError" THEN 0 - 1
          ELSE IF less = "less" THEN BisectLeft(q, mid + 1, hi)
          ELSE BisectLeft(q, lo, mid)

\* times[i][1] with Python's index i: a negative index counts from the end
Available(i) == IF i < 0 THEN times[Len(times) + i + 1][2] ELSE times[i + 1][2]

\* is_open = False, then the loop, then print(is_open)
IsOpenScan(q) == Returns(LinearScan(q, 1, FALSE))

\* times[bisect_left(times, (q, None)) - 1][1]
IsOpenBisect(q) ==
  LET at == BisectLeft(q, 0, Len(times))
  IN IF at < 0 THEN Raises("TypeError") ELSE Returns(Available(at - 1))

\* every time of day is asked for
InitHours ==
  /\ FunctionsOnly
  /\ \E h \in 0..23, m \in 0..59 : input = [fn |-> "is_open", time |-> Time(h, m)]
  /\ output = [status |-> "none"]

\* the cells of the linear scan
AskScan ==
  /\ input.fn = "is_open" /\ output.status = "none"
  /\ output' = IsOpenScan(input.time)
  /\ UNCHANGED <<tagvars, input, args, config, group, value, matches, pc, returned, raised,
                 heapvars, frames, objvars>>

\* the cell of the bisection
AskBisect ==
  /\ input.fn = "is_open" /\ output.status = "none"
  /\ output' = IsOpenBisect(input.time)
  /\ UNCHANGED <<tagvars, input, args, config, group, value, matches, pc, returned, raised,
                 heapvars, frames, objvars>>

NextHours == AskScan \/ AskBisect

SpecHours == InitHours /\ [][NextHours]_vars

(***************************************************************************)
(* number(input). A numeric value is num / 10^scale; a float is kept as    *)
(* the decimal it was written as.                                          *)
(***************************************************************************)

\* an int, a float, or the None that stands for what is no number and no str
Numeric(type, num, scale) == [type |-> type, num |-> num, scale |-> scale, text |-> <<>>]

\* a str, as code points
Textual(t) == [type |-> "str", num |-> 0, scale |-> 0, text |-> t]

\* the arguments: ints, floats with one decimal, None, and the texts over
\* "3", "0", "." and "-"
NumberInputs ==
  {Numeric("int", n, 0) : n \in {0 - 3, 0, 27}}
    \cup {Numeric("float", n, 1) : n \in {0 - 37, 0 - 30, 0, 5, 30, 37}}
    \cup {Numeric("None", 0, 0)}
    \cup {Textual(t) : t \in StringsOver({51, 48, 46, 45})}

\* the literal without its sign
Unsigned(t) == IF t # <<>> /\ t[1] = 45 THEN Tail(t) ELSE t

\* -1 for a literal with a minus sign
SignOf(t) == IF t # <<>> /\ t[1] = 45 THEN 0 - 1 ELSE 1

RECURSIVE DigitsValue(_)
\* the value of a run of decimal digits
DigitsValue(t) ==
  IF t = <<>> THEN 0 ELSE 10 * DigitsValue(SubSeq(t, 1, Len(t) - 1)) + (t[Len(t)] - 48)

IsDigits(t) == t # <<>> /\ \A i \in 1..Len(t) : t[i] \in 48..57

\* int(input): an int is itself, a float is truncated towards zero, a str
\* must be an optional sign and digits; <<>> stands for TypeError or
\* ValueError
IntOf(x) ==
  IF x.type = "int" THEN <<Numeric("int", x.num, 0)>>
  ELSE IF x.type = "float"
  THEN <<Numeric("int", SignOf(IF x.num < 0 THEN <<45>> ELSE <<>>)
                          * ((IF x.num < 0 THEN 0 - x.num ELSE x.num) \div 10), 0)>>
  ELSE IF x.type = "str" /\ IsDigits(Unsigned(x.text))
  THEN <<Numeric("int", SignOf(x.text) * DigitsValue(Unsigned(x.text)), 0)>>
  ELSE <<>>

\* float(input) after int(input) has failed: a str must be an optional
\* sign and digits around one point, with a digit on one side at least
FloatOf(x) ==
  IF x.type # "str" THEN <<>>
  ELSE LET u == Unsigned(x.text)
           points == {i \in 1..Len(u) : u[i] = 46}
       IN IF Cardinality(points) # 1 THEN <<>>
          ELSE LET p == CHOOSE i \in points : TRUE
                   digits == SubSeq(u, 1, p - 1) \o SubSeq(u, p + 1, Len(u))
               IN IF ~IsDigits(digits) THEN <<>>
                  ELSE <<Numeric("float", SignOf(x.text) * DigitsValue(digits), Len(u) - p)>>

\* number(input): int first, then float, then ValueError
Number(x) ==
  IF IntOf(x) # <<>> THEN Returns(IntOf(x)[1])
  ELSE IF FloatOf(x) # <<>> THEN Returns(FloatOf(x)[1])
  ELSE Raises("ValueError")

InitNumber ==
  /\ FunctionsOnly
  /\ \E x \in NumberInputs : input = [fn |-> "number", arg |-> x]
  /\ output = [status |-> "none"]

\* the one call of number
CallNumber ==
  /\ input.fn = "number" /\ output.status = "none"
  /\ output' = Number(input.arg)
  /\ UNCHANGED <<tagvars, input, args, config, group, value, matches, pc, returned, raised,
                 heapvars, frames, objvars>>

SpecNumber == InitNumber /\ [][CallNumber]_vars

(***************************************************************************)
(* Tag: cloning by call, adding children by subscription. An instance is   *)
(* its __dict__; children holds the address of a list object.              *)
(***************************************************************************)

\* calls made on tags
MaxTagOps == 4

\* the __dict__ of a tag: id is <<>> while the attribute does not exist
TagDict(name, children, id) == [localName |-> name, children |-> children, id |-> id]

\* keyword arguments of a call: <<>> for a name that is not passed, else
\* the value in a tuple; a children argument is a new empty list
Changes == {[id |-> i, children |-> c] : i \in {<<>>, <<27>>}, c \in {<<>>, <<(<<>>)>>}}

NoChanges == [id |-> <<>>, children |-> <<>>]

\* what is subscripted with: None, one child, a list of children
Subscripts == {[kind |-> "None", items |-> <<>>], [kind |-> "one", items |-> <<"x">>],
               [kind |-> "list", items |-> <<"x", "y">>]}

\* one entry of the history of calls
TagEntry(op, self, ret, changes, before, added) ==
  [op |-> op, self |-> self, ret |-> ret, changes |-> changes, before |-> before, added |-> added]

\* T.__init__, line 111: children or [] makes a new list for None and for
\* an empty list
InitLists(ls, children) ==
  IF children = 0 \/ ls[children] = <<>> THEN Append(ls, <<>>) ELSE ls

\* variant: line 601 is missing, the new instance keeps the __dict__ that
\* T.__init__ has filled
CloneDict_InitOnly(d, ls) ==
  TagDict(d.localName, IF ls[d.children] = <<>> THEN Len(ls) + 1 ELSE d.children, <<>>)

\* line 601: instance.__dict__ = self.__dict__.copy(), a shallow copy
CloneDict(d, ls) == d

\* lines 603-604: setattr(instance, name, value) for the changes; the list
\* passed as children is at address fresh
SetAttrs(d, ch, fresh) ==
  TagDict(d.localName, IF ch.children # <<>> THEN fresh ELSE d.children,
          IF ch.id # <<>> THEN ch.id ELSE d.id)

\* the module has been run: no tag yet
InitTags ==
  /\ NoProcessor
  /\ NoHeap /\ NoFrames /\ NoObjects /\ NoFunction
  /\ tags = <<>>
  /\ lists = <<>>

\* Tag.p: TagMeta.__getattr__ returns Tag('p')
TagGetAttr ==
  /\ Len(trace) < MaxTagOps
  /\ lists' = InitLists(lists, 0)
  /\ tags' = Append(tags, TagDict("p", Len(lists) + 1, <<>>))
  /\ trace' = Append(trace, TagEntry("getattr", 0, Len(tags) + 1, NoChanges, TagDict("p", 0, <<>>), <<>>))
  /\ UNCHANGED <<fnvars, args, config, group, value, matches, pc, returned, raised,
                 heapvars, frames, lazyInstance, instance, shared, objects>>

\* Tag.__call__(self, **attributes)
TagCall ==
  /\ Len(trace) < MaxTagOps
  /\ \E a \in DOMAIN tags, ch \in Changes :
       LET made == InitLists(lists, tags[a].children)
           passed == IF ch.children # <<>> THEN Append(made, ch.children[1]) ELSE made
       IN /\ lists' = passed
          /\ tags' = Append(tags, SetAttrs(CloneDict(tags[a], lists), ch, Len(passed)))
          /\ trace' = Append(trace, TagEntry("call", a, Len(tags) + 1, ch, tags[a], <<>>))
  /\ UNCHANGED <<fnvars, args, config, group, value, matches, pc, returned, raised,
                 heapvars, frames, lazyInstance, instance, shared, objects>>

\* Tag.__getitem__(self, children)
TagGetItem ==
  /\ Len(trace) < MaxTagOps
  /\ \E a \in DOMAIN tags, c \in Subscripts :
       /\ lists' = [lists EXCEPT ![tags[a].children] = @ \o c.items]
       /\ trace' = Append(trace, TagEntry("getitem", a, a, NoChanges, tags[a], c.items))
  /\ UNCHANGED <<tags, fnvars, args, config, group, value, matches, pc, returned, raised,
                 heapvars, frames, lazyInstance, instance, shared, objects>>

NextTags == TagGetAttr \/ TagCall \/ TagGetItem

SpecTags == InitTags /\ [][NextTags]_vars

(***************************************************************************)
(* First calls of Singular() and LazySingleton.new() by several threads:   *)
(* the test, the constructor call, the assignment and the return are       *)
(* separate steps, and a thread switch can come between any two of them.   *)
(***************************************************************************)

FirstCallers == {"A", "B", "C"}

\* the frame of a call that has not started: made is the new instance while
\* it is held on the stack, ret is what the call returned
Entering(class) == [class |-> class, pc |-> "test", made |-> NoAddress, ret |-> NoAddress]

\* cls.instance of Singular, cls._instance of LazySingleton
StoredIn(class) == IF class = "Singular" THEN instance ELSE lazyInstance

\* the classes are defined and every caller is about to make its first call
InitFirstCalls ==
  /\ NoProcessor
  /\ NoHeap /\ NoObjects /\ NoTags /\ NoFunction
  /\ frames \in [FirstCallers -> {Entering("Singular"), Entering("LazySingleton")}]

\* lines 109 and 34: if cls.instance is None
TestMissing(c) ==
  /\ frames[c].pc = "test"
  /\ frames' = Goto(frames, c, IF StoredIn(frames[c].class) = NoAddress THEN "construct" ELSE "return")
  /\ UNCHANGED <<allocated, objects, instance, lazyInstance>>

\* lines 110 and 35, right-hand side: the constructor runs
RunConstructor(c) ==
  /\ frames[c].pc = "construct"
  /\ allocated' = allocated + 1
  /\ objects' = Append(objects, Instance(frames[c].class, "own"))
  /\ frames' = Goto(WithLocal(frames, c, "made", allocated + 1), c, "assign")
  /\ UNCHANGED <<instance, lazyInstance>>

\* lines 110 and 35: the class attribute is assigned
StoreInstance(c) ==
  /\ frames[c].pc = "assign"
  /\ IF frames[c].class = "Singular"
     THEN instance' = frames[c].made /\ UNCHANGED lazyInstance
     ELSE lazyInstance' = frames[c].made /\ UNCHANGED instance
  /\ frames' = Goto(frames, c, "return")
  /\ UNCHANGED <<allocated, objects>>

\* lines 112 and 37: return cls.instance, read again
ReturnInstance(c) ==
  /\ frames[c].pc = "return"
  /\ frames' = Goto(WithLocal(frames, c, "ret", StoredIn(frames[c].class)), c, "done")
  /\ UNCHANGED <<allocated, objects, instance, lazyInstance>>

\* one thread executes its next step
FirstCallStep ==
  /\ \E c \in FirstCallers :
       \/ TestMissing(c)
       \/ RunConstructor(c)
       \/ StoreInstance(c)
       \/ ReturnInstance(c)
  /\ UNCHANGED <<tagvars, fnvars, args, config, group, value, matches, pc, returned, raised,
                 returnedAt, earlier, shared, trace>>

SpecFirstCalls == InitFirstCalls /\ [][FirstCallStep]_vars

(***************************************************************************)
(* Vocabulary of the properties.                                           *)
(***************************************************************************)

\* findall has run on a text argument
Called == pc # "ready" /\ value.str

text == value.text

spans == Spans(pattern, value.text)

Separators == pattern.trail

QuoteChars ==
  {pattern.alts[i].body.open[1] :
     i \in {j \in 1..Len(pattern.alts) : pattern.alts[j].body.open # <<>>}}

MarkerChars == Range(groups) \ {"None"}

\* the token starting at p begins with a quote character that never recurs
OpensUnclosed(p) ==
  /\ text[p] \in QuoteChars
  /\ \A k \in (p + 1)..Len(text) : text[k] # text[p]

\* maximal runs <<a, b>> of characters of s outside excl
MaxRuns(s, excl) ==
  {r \in (1..Len(s)) \X (1..Len(s)) :
     /\ r[1] <= r[2]
     /\ \A k \in r[1]..r[2] : s[k] \notin excl
     /\ r[1] = 1 \/ s[r[1] - 1] \in excl
     /\ r[2] = Len(s) \/ s[r[2] + 1] \in excl}

\* position k of tok lies between the two quote characters of a quoted span
\* (which an optional marker may precede)
InsideQuotes(tok, k) ==
  \E o \in 1..2 :
    /\ o < k /\ k < Len(tok)
    /\ tok[o] \in QuoteChars /\ tok[Len(tok)] = tok[o]
    /\ o = 1 \/ tok[1] \in MarkerChars

\* no token holds a separator outside a quoted span
SeparatorsOnlyQuoted ==
  \A i \in 1..Len(matches) : \A k \in 1..Len(matches[i]) :
    matches[i][k] \in Separators => InsideQuotes(matches[i], k)

\* the pattern matches a bare run without a marker in front
MarkerNotRequired == groups = <<>> \/ "None" \in Range(groups) \/ QuoteChars # {}

\* every whitespace character of the text is a separator
WhitespaceSeparates == \A k \in 1..Len(text) : text[k] \in Whitespace => text[k] \in Separators

NoQuoteInText == \A k \in 1..Len(text) : text[k] \notin QuoteChars

(***************************************************************************)
(* Properties of the tokens.                                               *)
(***************************************************************************)

\* C1 (as claimed): a token opened by a quote character that does not occur
\* again is the whole remainder of the input, separators included.
C1_UnclosedQuoteTakesRemainder ==
  Called => LET sp == spans IN \A i \in 1..Len(sp) :
    OpensUnclosed(sp[i].from)
      => matches[i] = SubSeq(text, sp[i].from, Len(text))

\* C1 (amended): a token opened by a quote character that does not occur
\* again is a bare run: it holds no separator and ends at the next separator
\* or at the end of the input.
C1_UnclosedQuoteIsBareRun ==
  Called => LET sp == spans IN \A i \in 1..Len(sp) :
    OpensUnclosed(sp[i].from)
      => /\ matches[i] = SubSeq(text, sp[i].from, sp[i].to - 1)
         /\ \A k \in sp[i].from..(sp[i].to - 1) : text[k] \notin Separators
         /\ sp[i].to = Len(text) + 1 \/ text[sp[i].to] \in Separators

\* an unclosed quote is followed by a separator and more text
C1_Witness ==
  /\ Called
  /\ LET sp == spans IN \E i \in 1..Len(sp) :
       /\ OpensUnclosed(sp[i].from)
       /\ sp[i].to < Len(text)
       /\ i < Len(sp)

\* C2 (as claimed): every maximal run of characters that are neither
\* separators nor whitespace (quoted spans that protect a separator or
\* whitespace aside) yields exactly one token, and separators occur in
\* tokens only inside quoted spans.
C2_EveryRunOneToken ==
  Called => LET sp == spans IN
    /\ \A r \in MaxRuns(text, Separators \cup Whitespace) :
         (\A i \in 1..Len(sp) :
            (sp[i].from <= r[2] /\ r[1] < sp[i].to)
              => \A k \in 1..Len(matches[i]) :
                   matches[i][k] \in Separators \cup Whitespace => ~InsideQuotes(matches[i], k))
         => Cardinality({i \in 1..Len(sp) : sp[i].from \in r[1]..r[2]}) = 1
    /\ SeparatorsOnlyQuoted

\* C2 (amended): when the text has no quote character and no whitespace
\* other than separators, and the pattern does not require a marker, the
\* tokens are exactly the maximal runs of non-separator characters; and for
\* every text, separators occur in tokens only inside quoted spans.
C2_RunsWithoutQuotes ==
  Called => LET sp == spans
                runs == MaxRuns(text, Separators) IN
    /\ (NoQuoteInText /\ WhitespaceSeparates /\ MarkerNotRequired)
         => /\ \A r \in runs :
                 Cardinality({i \in 1..Len(sp) : sp[i].from = r[1] /\ sp[i].to = r[2] + 1}) = 1
            /\ Len(sp) = Cardinality(runs)
            /\ \A i \in 1..Len(sp) : matches[i] = SubSeq(text, sp[i].from, sp[i].to - 1)
    /\ SeparatorsOnlyQuoted

\* two runs, one of them with a marker inside, on a pattern with markers
C2_Witness ==
  /\ Called /\ NoQuoteInText /\ WhitespaceSeparates /\ MarkerNotRequired
  /\ groups # <<>>
  /\ Cardinality(MaxRuns(text, Separators)) = 2
  /\ \E k \in 2..Len(text) : text[k] \in MarkerChars /\ text[k - 1] \notin Separators

\* the text is marker, quote q, a span without q, quote q
MarkedQuotedSpan(m, q) ==
  /\ Len(text) >= 4
  /\ text[1] = m /\ text[2] = q /\ text[Len(text)] = q
  /\ \A k \in 3..(Len(text) - 1) : text[k] # q

\* C4 (as claimed): with markers and quotes configured, a marker followed by
\* a span quoted with any configured quote character is one token.
C4_MarkerBeforeEveryQuote ==
  Called => \A m \in MarkerChars : \A q \in QuoteChars :
    MarkedQuotedSpan(m, q) => matches = <<text>>

\* the token starting at p is opened by a quote character whose next
\* occurrence is at r, with at least one character in between
OpensClosed(p, r) ==
  /\ text[p] \in QuoteChars
  /\ r \in (p + 2)..Len(text)
  /\ text[r] = text[p]
  /\ \A k \in (p + 1)..(r - 1) : text[k] # text[p]

\* C5 (as claimed): a token opened by a quote character and closed by the
\* next occurrence of that character is the span between them, quote
\* characters and enclosed separators included.
C5_ClosedQuoteOneToken ==
  Called => LET sp == spans IN \A i \in 1..Len(sp) : \A r \in 1..Len(text) :
    OpensClosed(sp[i].from, r) => matches[i] = SubSeq(text, sp[i].from, r)

\* break s on runs of separator characters and discard the empty pieces
SplitOnSeparators(s) ==
  LET runs == MaxRuns(s, Separators)
      nth(i) == CHOOSE r \in runs : Cardinality({x \in runs : x[1] < r[1]}) = i - 1
  IN [i \in 1..Cardinality(runs) |-> SubSeq(s, nth(i)[1], nth(i)[2])]

NoMarkerInText == \A k \in 1..Len(text) : text[k] \notin MarkerChars

\* the matches, and the result when there is one, are those of the pieces
LikeSeparatorSplit ==
  LET pieces == SplitOnSeparators(text)
  IN /\ matches = pieces
     /\ pc = "returned" => returned = Shape(groups, group, result, Terms(normalize, sort, pieces))

\* C7 (as claimed): on a text without quote and marker characters split is
\* "break on runs of separators, drop empty pieces, normalize, sort".
C7_EqualsSeparatorSplit ==
  (Called /\ NoQuoteInText /\ NoMarkerInText) => LikeSeparatorSplit

\* C7 (amended): the same, for texts whose whitespace characters are all
\* separators, on a pattern that does not require a marker.
C7_EqualsSeparatorSplitNoOtherWhitespace ==
  (Called /\ NoQuoteInText /\ NoMarkerInText /\ WhitespaceSeparates /\ MarkerNotRequired)
    => LikeSeparatorSplit

\* two pieces that normalization and sort rearrange
C7_Witness ==
  /\ Called /\ NoQuoteInText /\ NoMarkerInText /\ WhitespaceSeparates /\ MarkerNotRequired
  /\ Len(matches) = 2
  /\ pc = "returned" /\ sort /\ normalize = "lower_strip"
  /\ returned.items # matches

(***************************************************************************)
(* Properties of the grouping and of the shape of the result.              *)
(***************************************************************************)

\* the matches after normalization, in input order
normalized == NormalizeAll(normalize, matches)

\* the matches as the grouping loop sees them
terms == Terms(normalize, sort, matches)

\* the bucket a term belongs to by its first character
MarkerOf(t) == IF t[1] \in MarkerChars THEN t[1] ELSE "None"

\* the terms of ts that belong under k, in the order of ts, without marker
ExpectedUnder(k, ts) ==
  LET mine == SelectSeq(ts, LAMBDA t : MarkerOf(t) = k)
  IN [i \in 1..Len(mine) |-> IF k = "None" THEN mine[i] ELSE Tail(mine[i])]

Flat == group \in {"False", "None"}

\* the buckets the result shows
BucketsShown == IF group = "dict" THEN MarkerChars \cup {"None"} ELSE Range(groups)

\* the terms the result holds under k, for an ordered result
Shown(k) ==
  IF group = "dict" THEN returned.items[k]
  ELSE IF Flat
  THEN LET mine == SelectSeq(returned.items, LAMBDA pr : pr[1] = k)
       IN [i \in 1..Len(mine) |-> mine[i][2]]
  ELSE returned.items[CHOOSE n \in 1..Len(groups) : groups[n] = k]

\* the same as a set, for a flat result in a set
ShownSet(k) == {pr[2] : pr \in {x \in returned.items : x[1] = k}}

Grouped == pc = "returned" /\ groups # <<>>

\* C3: every term m<term> with a configured marker m is stored as <term> in
\* the bucket of m, every other term is stored unchanged in the None bucket.
C3_MarkerStripped ==
  Grouped => \A k \in BucketsShown :
    IF returned.type = "set"
    THEN ShownSet(k) = Range(ExpectedUnder(k, terms))
    ELSE /\ returned.type = "dict" => k \in DOMAIN returned.items
         /\ Shown(k) = ExpectedUnder(k, terms)

\* a marked and an unmarked term, both shown
C3_Witness ==
  /\ Grouped /\ "None" \in BucketsShown /\ returned.type # "set"
  /\ ExpectedUnder("None", terms) # <<>>
  /\ \E m \in MarkerChars : \E i \in 1..Len(ExpectedUnder(m, terms)) :
       ExpectedUnder(m, terms)[i] # <<>>

SeparatorsOnly == \A k \in 1..Len(text) : text[k] \in Separators

Empty(type) == IF type = "set" THEN {} ELSE <<>>

\* the result without any term, in the shape of the configuration
EmptyShape ==
  IF groups = <<>> \/ (group # "dict" /\ Flat)
  THEN returned.type = result /\ returned.items = Empty(result)
  ELSE IF group = "dict"
  THEN /\ returned.type = "dict"
       /\ Range(groups) \subseteq DOMAIN returned.items
       /\ \A k \in DOMAIN returned.items : returned.items[k] = <<>>
  ELSE /\ returned.type = group
       /\ returned.items = [n \in 1..Len(groups) |-> <<>>]

\* C6: the empty text and every text of separators only give the empty
\* shape of the configuration.
C6_EmptyShape ==
  (Called /\ SeparatorsOnly) => (pc = "returned" /\ EmptyShape)

\* separators only, one empty list per marker
C6_Witness ==
  /\ Called /\ SeparatorsOnly /\ Len(text) >= 2
  /\ groups # <<>> /\ group = "tuple"
  /\ pc = "returned" /\ Len(returned.items) = Len(groups)

\* C8: in dict mode the keys are the configured markers and None, each
\* mapped to a list that is empty when no term belongs to it.
C8_DictHasEveryKey ==
  (Grouped /\ group = "dict") =>
    /\ returned.type = "dict"
    /\ DOMAIN returned.items = Range(groups) \cup {"None"}
    /\ \A k \in DOMAIN returned.items :
         /\ DOMAIN returned.items[k] = 1..Len(returned.items[k])
         /\ (\A i \in 1..Len(terms) : MarkerOf(terms[i]) # k) => returned.items[k] = <<>>

\* None is not configured, holds a term, and a configured marker holds none
C8_Witness ==
  /\ Grouped /\ group = "dict" /\ "None" \notin Range(groups)
  /\ returned.type = "dict"
  /\ "None" \in DOMAIN returned.items /\ returned.items["None"] # <<>>
  /\ \E m \in MarkerChars : m \in DOMAIN returned.items /\ returned.items[m] = <<>>

\* position of marker k in self.groups
Declared(k) == CHOOSE n \in 1..Len(groups) : groups[n] = k

\* C9: without sort, a flat result holds the (marker, term) pairs marker by
\* marker in declared order, the terms of one marker in input order, in the
\* result container; a list or tuple grouping holds one list per configured
\* marker, in declared order, each in input order.
C9_DeclaredMarkerOrder ==
  (Grouped /\ ~sort /\ group # "dict") =>
    IF Flat
    THEN /\ returned.type = result
         /\ IF result = "set"
            THEN returned.items =
                   UNION {{<<k, x>> : x \in Range(ExpectedUnder(k, normalized))} : k \in Range(groups)}
            ELSE /\ \A i \in 1..Len(returned.items) : returned.items[i][1] \in Range(groups)
                 /\ \A i, j \in 1..Len(returned.items) :
                      i < j => Declared(returned.items[i][1]) <= Declared(returned.items[j][1])
                 /\ \A k \in Range(groups) : Shown(k) = ExpectedUnder(k, normalized)
    ELSE /\ returned.type = group
         /\ Len(returned.items) = Len(groups)
         /\ \A n \in 1..Len(groups) : returned.items[n] = ExpectedUnder(groups[n], normalized)

\* a flat list whose order is not the input order
C9_Witness ==
  /\ Grouped /\ ~sort /\ Flat /\ result = "list"
  /\ \E i, j \in 1..Len(normalized) :
       /\ i < j
       /\ MarkerOf(normalized[i]) \in Range(groups) /\ MarkerOf(normalized[j]) \in Range(groups)
       /\ Declared(MarkerOf(normalized[i])) > Declared(MarkerOf(normalized[j]))

Ascending(ts) == \A i \in 1..(Len(ts) - 1) : ~StrLess(ts[i + 1], ts[i])

\* how often t occurs in ts
Count(ts, t) == Cardinality({i \in 1..Len(ts) : ts[i] = t})

\* C10: with sort and an ordered container the normalized terms come out in
\* ascending order: the whole result without markers, each bucket with.
C10_SortedAfterNormalize ==
  (pc = "returned" /\ sort /\ returned.type # "set") =>
    IF groups = <<>>
    THEN /\ Ascending(returned.items)
         /\ \A t \in Range(normalized) \cup Range(returned.items) :
              Count(returned.items, t) = Count(normalized, t)
    ELSE \A k \in BucketsShown :
           /\ returned.type = "dict" => k \in DOMAIN returned.items
           /\ Ascending(Shown(k))

\* normalization changes the order of two terms of one bucket
C10_Witness ==
  /\ Grouped /\ sort /\ normalize = "lower_strip" /\ group = "dict"
  /\ ~Ascending(matches) /\ Ascending(SortList(matches)) /\ ~Ascending(NormalizeAll(normalize, SortList(matches)))
  /\ \E k \in DOMAIN returned.items : Len(returned.items[k]) >= 2

(***************************************************************************)
(* Properties of split as a function of the configuration and the text.    *)
(***************************************************************************)

RECURSIVE Join(_, _)
\* sep.join(ts)
Join(ts, sep) ==
  IF ts = <<>> THEN <<>>
  ELSE IF Len(ts) = 1 THEN ts[1]
  ELSE ts[1] \o <<sep>> \o Join(Tail(ts), sep)

\* separators[0] of the constructor: "The first will be used for joins."
FirstSeparators == {separators[1] : separators \in SeparatorArgs}

\* split(t) of a processor without groups, as a sequence
SplitTerms(t) == Terms(normalize, sort, FindAll(pattern, t))

\* an ungrouped list came back, of a text without quote characters, and
\* nothing is normalized
PlainSplit ==
  /\ Called /\ pc = "returned"
  /\ groups = <<>> /\ normalize = "None" /\ returned.type = "list"
  /\ NoQuoteInText

\* splitting the joined result gives the result again
RoundTrips == \A sep \in FirstSeparators : SplitTerms(Join(returned.items, sep)) = returned.items

C12_NotTextRaisesTypeError ==
  (pc # "ready" /\ ~value.str) =>
    /\ pc = "raised" /\ raised = "TypeError"
    /\ matches = <<>>
    /\ returned = NoResult

\* the call on a processor that normalizes, sorts and groups
C12_Witness ==
  /\ pc = "raised" /\ ~value.str
  /\ groups # <<>> /\ normalize = "lower_strip" /\ sort

(***************************************************************************)
(* Properties of the constructor.                                          *)
(***************************************************************************)

C17_EveryGroupsFormBuilds ==
  (pc # "unbuilt" /\ args.separators # <<>>) =>
    /\ pc # "failed"
    /\ (args.groups.kind = "None" /\ pc = "returned")
         => returned = Container(result, Terms(normalize, sort, matches))

(***************************************************************************)
(* Properties of repeated calls on one processor.                          *)
(***************************************************************************)

\* the fields are what the constructor made of its arguments
FieldsAsBuilt ==
  /\ pattern = Compile(args.separators, args.quotes, args.groups.items)
  /\ groups = args.groups.items
  /\ group = (IF args.group = "True" THEN "dict" ELSE args.group)
  /\ normalize = args.normalize
  /\ sort = args.sort
  /\ result = args.result

\* what the first call of a processor just built with a returns for v
FreshSplit(a, v) ==
  Shape(a.groups.items, IF a.group = "True" THEN "dict" ELSE a.group, a.result,
        Terms(a.normalize, a.sort, FindAll(Compile(a.separators, a.quotes, a.groups.items), v.text)))

\* the outcome of the call is the outcome on a processor just built
LikeFirstCall ==
  /\ pc = "returned" => (value.str /\ returned = FreshSplit(args, value))
  /\ pc = "raised" => (~value.str /\ raised = "TypeError")

EmptyTuple(obj) == obj.type = "tuple" /\ obj.items = <<>>

\* C14 (as claimed): split changes no field, every call gives what the
\* first call of a fresh processor gives, and the object returned is none
\* of the objects returned earlier.
C14_NoStateBetweenCalls ==
  /\ FieldsAsBuilt
  /\ LikeFirstCall
  /\ pc = "returned" => returnedAt \notin earlier

\* C14 (amended): the same, but an empty tuple may be the object an
\* earlier call returned.
C14_NoStateBetweenCallsEmptyTupleAside ==
  /\ FieldsAsBuilt
  /\ LikeFirstCall
  /\ (pc = "returned" /\ ~EmptyTuple(returned)) => returnedAt \notin earlier

\* the third dict of a processor that normalizes and sorts
C14_Witness ==
  /\ pc = "returned" /\ returned.type = "dict"
  /\ Cardinality(earlier) = 2 /\ returnedAt \notin earlier
  /\ normalize = "lower_strip" /\ sort
  /\ \E k \in DOMAIN returned.items : returned.items[k] # <<>>

(***************************************************************************)
(* Properties of concurrent calls on one processor.                        *)
(***************************************************************************)

\* what split(v) on the processor gives a caller that is alone
AloneTerms(v) == Terms(normalize, sort, FindAll(pattern, v.text))

AloneRaises(v) ==
  IF ~v.str THEN "TypeError"
  ELSE IF IndexErrorIn(groups, AloneTerms(v)) THEN "IndexError"
  ELSE "none"

\* the locals of the call f are those of a call that runs alone
OwnLocals(f) ==
  /\ f.pc = "terms" => f.matches = FindAll(pattern, f.value.text)
  /\ f.pc \in {"ungrouped", "buckets", "mode", "returned"} => f.matches = AloneTerms(f.value)
  /\ f.pc = "mode" => f.buckets = Buckets(groups, AloneTerms(f.value))
  /\ f.pc = "returned"
       => (AloneRaises(f.value) = "none"
           /\ f.returned = Shape(groups, group, result, AloneTerms(f.value)))
  /\ f.pc = "raised" => (f.raised # "none" /\ f.raised = AloneRaises(f.value))
  /\ f.pc # "raised" => f.raised = "none"
  /\ f.pc # "returned" => f.returned = NoResult

\* C15: in every interleaving of the statements of concurrent split calls
\* on one processor, the locals and the outcome of each call are those of
\* the call running alone.
C15_ConcurrentCallsIndependent ==
  \A c \in DOMAIN frames : OwnLocals(frames[c])

\* one call has returned while another, on another text with other terms,
\* holds its buckets and has not returned yet
C15_Witness ==
  /\ DOMAIN frames = Callers
  /\ \E c, d \in Callers :
       /\ frames[c].pc = "returned" /\ frames[d].pc = "mode"
       /\ frames[c].matches # <<>> /\ frames[d].matches # <<>>
       /\ frames[c].matches # frames[d].matches

(***************************************************************************)
(* Properties of the configuration after construction.                     *)
(***************************************************************************)

\* C16 (as claimed): no step changes the pattern, the marker list, the
\* grouping mode, the normalizer, the sort flag or the result container of
\* a constructed processor.
C16_ConfigurationNeverReassigned ==
  [][UNCHANGED <<pattern, groups, group, normalize, sort, result>>]_vars

(***************************************************************************)
(* Properties of Singleton, LazySingleton and Borg.                        *)
(***************************************************************************)

\* positions of the calls of op in trace
CallsOf(op) == {i \in 1..Len(trace) : trace[i].op = op}

\* those that returned an object
Returned(op) == {i \in CallsOf(op) : trace[i].ret # NoAddress}

\* all calls of op that returned, returned the object stored
AllReturned(op, stored) == \A i \in Returned(op) : trace[i].ret = stored

\* C18 (as claimed): every call Singular(...) returned the same object, the
\* stored instance; the constructor ran in the first call only.
C18_SingletonConstructsInFirstCall ==
  /\ AllReturned("Singular", instance)
  /\ \A i \in CallsOf("Singular") : trace[i].ran => i = Min(CallsOf("Singular"))

\* C18 (amended): every call Singular(...) that returned, returned the same
\* object, the stored instance; the constructor ran only in calls made
\* before any call had returned, and completed in one call at most.
C18_SingletonConstructsUntilStored ==
  /\ AllReturned("Singular", instance)
  /\ \A i \in CallsOf("Singular") :
       trace[i].ran => \A j \in Returned("Singular") : i <= j
  /\ Cardinality({a \in DOMAIN objects : objects[a].class = "Singular"}) <= 1
  /\ Returned("Singular") = {} => instance = NoAddress

\* a call that raised, the call that constructed, a call with arguments
\* that returned the instance
C18_Witness ==
  \E i, j, k \in CallsOf("Singular") :
    /\ i < j /\ j < k
    /\ trace[i].ret = NoAddress
    /\ trace[j].ran /\ trace[j].ret = instance
    /\ trace[k].args /\ ~trace[k].ran /\ trace[k].ret = instance

Borgs == {a \in DOMAIN objects : objects[a].class = "Borg"}

\* the dict that a.__dict__ is
DictOf(a) == IF objects[a].dict = "shared" THEN shared ELSE objects[a].own

\* a == b for a Borg a: lines 174-175, identity of the two __dict__
BorgEq(a, b) ==
  /\ objects[b].class = "Borg"
  /\ (objects[a].dict = "shared" /\ objects[b].dict = "shared") \/ a = b

\* positions of the assignments to attribute n
AssignmentsOf(n) == {i \in CallsOf("setattr") : trace[i].name = n}

\* the assignment at position i was made through an instance whose
\* __dict__ had been assigned before
ThroughRebound(i) ==
  \E j \in 1..(i - 1) :
    trace[j].op = "setattr" /\ trace[j].name = "__dict__" /\ trace[j].ret = trace[i].ret

\* the objects are pairwise distinct and equal, and each reads, for every
\* attribute assigned through an instance as constructed, the value
\* assigned last
ShareState(bs) ==
  /\ \A i, j \in Returned("Borg") : i # j => trace[i].ret # trace[j].ret
  /\ \A a, b \in bs : BorgEq(a, b)
  /\ \A n \in AttrNames :
       LET through == {i \in AssignmentsOf(n) : ~ThroughRebound(i)}
       IN through # {} =>
            \A a \in bs :
              /\ n \in DOMAIN DictOf(a)
              /\ DictOf(a)[n] = trace[Max(through)].val

Rebound == {trace[i].ret : i \in AssignmentsOf("__dict__")}

SpansAdvance(sp) ==
  /\ Len(matches) = Len(sp)
  /\ \A i \in 1..Len(sp) :
       /\ 1 <= sp[i].from /\ sp[i].from < sp[i].to /\ sp[i].to <= Len(text) + 1
       /\ matches[i] = SubSeq(text, sp[i].from, sp[i].to - 1)
  /\ \A i \in 1..(Len(sp) - 1) : sp[i].to <= sp[i + 1].from

\* nothing but separators and whitespace from position p to the end
OnlySpaceFrom(p) == \A k \in p..Len(text) : text[k] \in Separators \cup Whitespace

Conserved(k) ==
  LET expected == ExpectedUnder(k, terms)
  IN IF k \in BucketsShown
     THEN IF Flat /\ result = "set"
          THEN ShownSet(k) = Range(expected)
          ELSE Shown(k) = expected
     ELSE expected = <<>>

\* C27 (as claimed): with markers configured, in every grouping mode and
\* whether or not None is among the markers, every term is in the result
\* once, under its marker or, unmarked, under None.
C27_TermsConserved ==
  Grouped => \A k \in MarkerChars \cup {"None"} : Conserved(k)

\* the terms the result holds, in any bucket
StoredTerms ==
  UNION {IF Flat /\ result = "set" THEN ShownSet(k) ELSE Range(Shown(k)) : k \in BucketsShown}

\* C28 (as claimed): with markers configured, split of a text returns a
\* result, also when the normalizer makes a term empty, and no term in a
\* bucket is the empty string.
C28_GroupingReturnsNoEmptyTerm ==
  (Called /\ groups # <<>>) => /\ pc = "returned"
                               /\ <<>> \notin StoredTerms

(***************************************************************************)
(* C21, C24: urlsafe and uninorm.                                          *)
(***************************************************************************)

\* the maximal runs of word characters of s, in order
WordRuns(s) ==
  LET runs == MaxRuns(s, {c \in Range(s) : ~Word(c)})
      nth(i) == CHOOSE r \in runs : Cardinality({x \in runs : x[1] < r[1]}) = i - 1
  IN [i \in 1..Cardinality(runs) |-> SubSeq(s, nth(i)[1], nth(i)[2])]

\* the normalized name with each run of unsafe characters replaced and the
\* replacement stripped from both ends: its runs of word characters, joined
\* by the replacement
SafeBase(name) == Join(WordRuns(Uninorm(FALSE, name).value), Replacement[1])

UrlsafeReturned == input.fn = "urlsafe" /\ output.status = "returned"

\* C21: urlsafe(name, collection) ends within as many steps as collection
\* has members and returns the first of base, base-1, base-2, ... that is
\* not in collection; so the result is never in collection.
C21_FirstFreeCandidate ==
  (input.fn = "urlsafe" /\ output.status # "none") =>
    /\ output.status = "returned"
    /\ \E k \in 0..Cardinality(input.collection) :
         /\ output.value = Candidate(SafeBase(input.text), k)
         /\ \A j \in 0..(k - 1) : Candidate(SafeBase(input.text), j) \in input.collection
    /\ output.value \notin input.collection

\* 'a' and 'a-1' are taken and a name with unsafe characters gets 'a-2'
C21_Witness ==
  /\ UrlsafeReturned
  /\ input.text # <<97>>
  /\ {<<97>>, <<97, 45, 49>>} \subseteq input.collection
  /\ output.value = <<97, 45, 50>>

NoCrLf(s) == \A i \in 1..(Len(s) - 1) : ~(s[i] = 13 /\ s[i + 1] = 10)

\* C24 (as claimed): the text uninorm returns holds no CR LF pair, and
\* uninorm of it returns it unchanged.
C24_NoCrLfAndIdempotent ==
  (input.fn = "uninorm" /\ output.status = "returned") =>
    /\ NoCrLf(output.value)
    /\ Uninorm(FALSE, output.value) = output

(***************************************************************************)
(* C22: the two store-hours lookups.                                       *)
(***************************************************************************)

\* the flag of the latest entry of times whose time is at most q
LatestFlag(q) ==
  LET upTo == {i \in 1..Len(times) : ~TextLess(q, times[i][1])}
  IN times[Max(upTo)][2]

\* C22 (as claimed): for every time of day the bisection gives the answer
\* of the linear scan, and both give the flag of the latest entry whose time
\* is at most the time asked for, also when it is the time of an entry.
C22_BisectLikeScan ==
  (input.fn = "is_open" /\ output.status # "none") =>
    /\ output.status = "returned"
    /\ output.value = LatestFlag(input.time)
    /\ IsOpenBisect(input.time).status = IsOpenScan(input.time).status
    /\ IsOpenBisect(input.time).value = IsOpenScan(input.time).value

(***************************************************************************)
(* C25: number.                                                            *)
(***************************************************************************)

RECURSIVE Pow10(_)
Pow10(k) == IF k = 0 THEN 1 ELSE 10 * Pow10(k - 1)

\* the number an argument denotes, wrapped in a tuple: an int or a float is
\* the number it is, a str the decimal numeral it spells; <<>> if none
Denoted(x) ==
  IF x.type \in {"int", "float"} THEN <<x>>
  ELSE IF IntOf(x) # <<>> THEN IntOf(x) ELSE FloatOf(x)

SameValue(a, b) == a.num * Pow10(b.scale) = b.num * Pow10(a.scale)

Whole(a) == a.num % Pow10(a.scale) = 0

NumberCalled == input.fn = "number" /\ output.status # "none"

\* C25 (as claimed): number returns the value its argument denotes, as an
\* int exactly when that value is whole and as a float otherwise, and raises
\* ValueError for an argument that denotes no number.
C25_SameValueIntIffWhole ==
  NumberCalled =>
    IF Denoted(input.arg) = <<>>
    THEN output.status = "raised" /\ output.value = "ValueError"
    ELSE /\ output.status = "returned"
         /\ SameValue(output.value, Denoted(input.arg)[1])
         /\ output.value.type = "int" <=> Whole(Denoted(input.arg)[1])

(***************************************************************************)
(* C23: clones of a tag and their children.                                *)
(***************************************************************************)

TagOps(op) == {i \in 1..Len(trace) : trace[i].op = op}

\* the tags that the clone calls in edges connect with a, a included
RECURSIVE Connected(_, _)
Connected(S, edges) ==
  LET more == S \cup {trace[i].ret : i \in {j \in edges : trace[j].self \in S}}
                \cup {trace[i].self : i \in {j \in edges : trace[j].ret \in S}}
  IN IF more = S THEN S ELSE Connected(more, edges)

\* every call returned a new object that has the attributes of the original
\* and the changes, the original has the attributes it had, and __getitem__
\* returned the instance it was called on
ClonesCarry ==
  /\ \A i \in TagOps("call") :
       /\ trace[i].ret # trace[i].self
       /\ \A j \in 1..(i - 1) : trace[j].ret # trace[i].ret
       /\ tags[trace[i].self] = trace[i].before
       /\ tags[trace[i].ret].localName = trace[i].before.localName
       /\ tags[trace[i].ret].id =
            IF trace[i].changes.id # <<>> THEN trace[i].changes.id ELSE trace[i].before.id
       /\ trace[i].changes.children = <<>> =>
            tags[trace[i].ret].children = trace[i].before.children
  /\ \A i \in TagOps("getitem") : trace[i].ret = trace[i].self

\* every child added through a tag is among the children of every tag that
\* the calls in edges connect with it
AddedShared(edges) ==
  \A i \in TagOps("getitem") : \A b \in Connected({trace[i].self}, edges) :
    \A k \in 1..Len(trace[i].added) : trace[i].added[k] \in Range(lists[tags[b].children])

Done(class) == {c \in FirstCallers : frames[c].class = class /\ frames[c].pc = "done"}

\* C29 (as claimed): when several callers make their first Singular() or
\* LazySingleton.new() call at the same time, then in every interleaving the
\* constructor of the class runs at most once and all callers get the same
\* object.
C29_ConstructedOnceUnderInterleaving ==
  (DOMAIN frames = FirstCallers) =>
    \A class \in {"Singular", "LazySingleton"} :
      /\ Cardinality({a \in DOMAIN objects : objects[a].class = class}) <= 1
      /\ \A c \in Done(class), d \in Done(class) : frames[c].ret = frames[d].ret

====
